---- MODULE Spec2Model ----
(***************************************************************************)
(* Schema model and DDL compiler of to-orderly (lib_templates).            *)
(*                                                                         *)
(* Strings of the program (field names, table names, SQL text) are         *)
(* sequences of one-character strings, so that to_lowercase, the byte      *)
(* order of map keys and the rendering of a statement are computed         *)
(* character by character.                                                 *)
(***************************************************************************)
EXTENDS Integers, Sequences, FiniteSets, TLC

VARIABLES json, schema_result, sample, live_result, schema, live_schema,
          statement, value, inferred, compared, equal, templates, tables,
          response

\* the Field comparison and the web service's database and last response
aux == <<compared, equal, templates, tables, response>>

vars == <<json, schema_result, sample, live_result, schema, live_schema,
          statement, value, inferred, aux>>

(***************************************************************************)
(* Bounds of the exploration.                                              *)
(***************************************************************************)
\* longest declared-schema input array explored
MaxLen == 3
\* largest number of keys of a live-schema sample explored
MaxKeys == 3
\* largest number of entries pushed into a Schema / LiveSchema value by hand
MaxFields == 2
\* the most rows the table template gets
MaxTemplates == 2

(***************************************************************************)
(* Characters and strings.                                                 *)
(***************************************************************************)
UpperChars == <<"A","B","C","D","E","F","G","H","I","J","K","L","M",
                "N","O","P","Q","R","S","T","U","V","W","X","Y","Z">>
LowerChars == <<"a","b","c","d","e","f","g","h","i","j","k","l","m",
                "n","o","p","q","r","s","t","u","v","w","x","y","z">>

\* the characters in increasing byte order (String's Ord is bytewise)
ByteOrder == <<" ", "\"", "(", ")", ",", "0", "2", "3", "A", "D", "I", "T", "_">>
             \o LowerChars

CharLower(c) ==
    IF \E i \in 1..26 : UpperChars[i] = c
    THEN LowerChars[CHOOSE i \in 1..26 : UpperChars[i] = c]
    ELSE c

\* str::to_lowercase
to_lowercase(s) == [i \in 1..Len(s) |-> CharLower(s[i])]

\* the text of a character sequence
RECURSIVE Str(_)
Str(s) == IF s = <<>> THEN "" ELSE Head(s) \o Str(Tail(s))

ByteOf(c) == CHOOSE i \in 1..Len(ByteOrder) : ByteOrder[i] = c

\* String::cmp(a, b) = Less
RECURSIVE StrLess(_, _)
StrLess(a, b) ==
    IF b = <<>> THEN FALSE
    ELSE IF a = <<>> THEN TRUE
    ELSE IF Head(a) = Head(b) THEN StrLess(Tail(a), Tail(b))
    ELSE ByteOf(Head(a)) < ByteOf(Head(b))

\* Option<T>
None == [some |-> FALSE]
Some(x) == [some |-> TRUE, v |-> x]

\* Result<T, E>
Ok(x) == [tag |-> "Ok", value |-> x]
Err(e) == [tag |-> "Err", error |-> e]

\* "not produced yet"
NoResult == [tag |-> "NoResult"]

(***************************************************************************)
(* Type, Field.                                                            *)
(***************************************************************************)
Type == {"Integer", "Float", "Text", "Bool"}

Field(n, t, nl) == [name |-> n, field_type |-> t, nullable |-> nl]

\* faulty variant: the derived equality, which compares every member
Field_eq_derived(a, b) == a = b

\* impl PartialEq for Field
Field_eq(a, b) == a.name = b.name

(***************************************************************************)
(* IdenString and the statement builder calls the compiler makes.          *)
(***************************************************************************)
\* iden_str!(raw)
iden_str(raw) == [raw |-> raw]

\* faulty variant: the raw string is written as it is
unquoted_verbatim(iden) == iden.raw

\* impl Iden for IdenString: unquoted
unquoted(iden) == to_lowercase(iden.raw)

ColumnDef_new(iden) == [name |-> iden, types |-> "unset", spec |-> <<>>]
col_null(c) == [c EXCEPT !.spec = Append(@, "Null")]
col_not_null(c) == [c EXCEPT !.spec = Append(@, "NotNull")]
col_auto_increment(c) == [c EXCEPT !.spec = Append(@, "AutoIncrement")]
col_primary_key(c) == [c EXCEPT !.spec = Append(@, "PrimaryKey")]
col_integer(c) == [c EXCEPT !.types = "Integer"]
col_float(c) == [c EXCEPT !.types = "Float"]
col_text(c) == [c EXCEPT !.types = "Text"]
col_boolean(c) == [c EXCEPT !.types = "Boolean"]

\* match entry.field_type() { ... } of Schema::table_create_statement
SchemaColType(column, t) ==
    CASE t = "Integer" -> col_integer(column)
      [] t = "Float"   -> col_float(column)
      [] t = "Text"    -> col_text(column)
      [] t = "Bool"    -> col_boolean(column)
\* faulty variant: every column is marked NULL
SchemaColNullable_always(column, nullable) == col_null(column)

\* entry.nullable().then(|| column.null())
SchemaColNullable(column, nullable) ==
    IF nullable THEN col_null(column) ELSE column

\* the body of the loop of Schema::table_create_statement for one entry
SchemaColumn(entry) ==
    SchemaColType(
        SchemaColNullable(ColumnDef_new(iden_str(entry.name)), entry.nullable),
        entry.field_type)
\* faulty variant: the id column is not made auto-incrementing
table_unique_id_plain ==
    col_primary_key(col_not_null(col_integer(
        ColumnDef_new(iden_str(<<"i", "d">>)))))

\* the implicit id column
table_unique_id ==
    col_primary_key(col_auto_increment(col_not_null(col_integer(
        ColumnDef_new(iden_str(<<"i", "d">>))))))

\* the loop over self.inner().iter(): None entries are skipped
RECURSIVE SchemaColumns(_)
SchemaColumns(inner) ==
    IF inner = <<>> THEN <<>>
    ELSE IF ~Head(inner).some THEN SchemaColumns(Tail(inner))
    ELSE <<SchemaColumn(Head(inner).v)>> \o SchemaColumns(Tail(inner))
\* faulty variant: the id column is put first
Schema_table_create_statement_id_first(self, table_name) ==
    [table |-> iden_str(table_name),
     columns |-> <<table_unique_id>> \o SchemaColumns(self)]

\* Schema::table_create_statement
Schema_table_create_statement(self, table_name) ==
    [table |-> iden_str(table_name),
     columns |-> Append(SchemaColumns(self), table_unique_id)]
\* faulty variant: a Float Field gets an integer column
LiveColType_float_integer(column, t) ==
    CASE t = "Integer" -> col_integer(column)
      [] t = "Float"   -> col_integer(column)
      [] t = "Text"    -> col_text(column)
      [] t = "Bool"    -> col_boolean(column)

\* the body of the loop of LiveSchema::table_create_statement for one entry
LiveColType(column, t) ==
    CASE t = "Integer" -> col_integer(column)
      [] t = "Float"   -> col_float(column)
      [] t = "Text"    -> col_text(column)
      [] t = "Bool"    -> col_boolean(column)

LiveColNullable(column, nullable) ==
    IF nullable THEN col_null(column) ELSE column

\* let (entry, _) = entry.as_ref().unwrap(): the sample value is dropped
LiveColumn(pair) ==
    LiveColType(
        LiveColNullable(ColumnDef_new(iden_str(pair[1].name)), pair[1].nullable),
        pair[1].field_type)

RECURSIVE LiveColumns(_)
LiveColumns(inner) ==
    IF inner = <<>> THEN <<>>
    ELSE IF ~Head(inner).some THEN LiveColumns(Tail(inner))
    ELSE <<LiveColumn(Head(inner).v)>> \o LiveColumns(Tail(inner))

\* LiveSchema::table_create_statement
LiveSchema_table_create_statement(self, table_name) ==
    [table |-> iden_str(table_name),
     columns |-> Append(LiveColumns(self), table_unique_id)]

(***************************************************************************)
(* Deserializing a declared schema: a JSON array of declarations.          *)
(* A declaration is the JSON object {"name": .., "type": .., "nullable":   *)
(* ..}; a key may be absent and the type tag may be any string.            *)
(***************************************************************************)
Decl(hn, n, t, nl) == [has_name |-> hn, name |-> n, type |-> t, nullable |-> nl]

\* #[serde(rename = ...)] of enum Type: the tag of each variant
TypeOfTag(tag) ==
    CASE tag = "integer" -> Ok("Integer")
      [] tag = "float"   -> Ok("Float")
      [] tag = "text"    -> Ok("Text")
      [] tag = "bool"    -> Ok("Bool")
      [] OTHER           -> Err("unknown_variant")

\* #[derive(Deserialize)] of Field, #[serde(default)] on nullable
Field_deserialize(d) ==
    IF ~d.has_name THEN Err("missing_field")
    ELSE IF d.type = "absent" THEN Err("missing_field")
    ELSE IF TypeOfTag(d.type).tag = "Err" THEN TypeOfTag(d.type)
    ELSE Ok(Field(d.name, TypeOfTag(d.type).value,
                  IF d.nullable = "absent" THEN FALSE ELSE d.nullable = "true"))

\* schema.inner_mut().get(i).replace(&mut Some(entry)): get(i) returns an
\* Option<&Option<Field>> by value and replace() overwrites that temporary,
\* so the vector behind the slice keeps its content and its length
SlotReplace(inner, i, entry) ==
    LET got      == IF i < Len(inner) THEN Some(inner[i + 1]) ELSE None
        replaced == Some(Some(entry))
    IN  inner
\* faulty variant: the name of an accepted declaration is not recorded
ExistingInsert_forgotten(existing, name) == existing

\* existing.insert(entry.name.clone())
ExistingInsert(existing, name) == existing \cup {name}

\* the while-let loop of SchemaVisitor::visit_seq from element i on;
\* taken = number of elements the loop pulled out of the sequence
RECURSIVE VisitSeqLoop(_, _, _, _)
VisitSeqLoop(seq, i, existing, inner) ==
    IF i > Len(seq)
    THEN [ret |-> Ok(inner), taken |-> Len(seq)]
    ELSE LET entry == Field_deserialize(seq[i]) IN
         IF entry.tag # "Ok"
         THEN [ret |-> Ok(inner), taken |-> i]
         ELSE IF entry.value.name \in existing
         THEN [ret |-> Err("duplicate_field"), taken |-> i]
         ELSE VisitSeqLoop(seq, i + 1,
                           ExistingInsert(existing, entry.value.name),
                           SlotReplace(inner, i - 1, entry.value))

\* SchemaVisitor::visit_seq, started with Schema::default()
visit_seq(seq) == VisitSeqLoop(seq, 1, {}, <<>>)

\* faulty variant: an array from which no element was taken is refused
Schema_deserialize_nonempty(array) ==
    LET r == visit_seq(array) IN
    IF r.ret.tag = "Err" THEN r.ret
    ELSE IF r.taken = Len(array) /\ r.taken > 0 THEN r.ret
    ELSE Err("invalid_length")

\* impl Deserialize for Schema, driven by serde_json::from_value on an
\* array: the visitor's error is passed on, and a visitor that returns
\* before the array is exhausted makes the call fail with invalid_length
Schema_deserialize(array) ==
    LET r == visit_seq(array) IN
    IF r.ret.tag = "Err" THEN r.ret
    ELSE IF r.taken = Len(array) THEN r.ret
    ELSE Err("invalid_length")

(***************************************************************************)
(* serde_json values.  A Number keeps the three representations of         *)
(* serde_json (PosInt: u64, NegInt: negative i64, Float: f64); the 64-bit  *)
(* integers are four 16-bit limbs, most significant first (NegInt holds    *)
(* the magnitude).                                                         *)
(***************************************************************************)
JNull == [kind |-> "Null"]
JArray == [kind |-> "Array"]
JObject == [kind |-> "Object"]
JBool(b) == [kind |-> "Bool", b |-> b]
JString(s) == [kind |-> "String", s |-> s]
JNumber(n) == [kind |-> "Number", n |-> n]

PosInt(limbs) == [variant |-> "PosInt", limbs |-> limbs]
NegInt(limbs) == [variant |-> "NegInt", limbs |-> limbs]
Float(whole, frac) == [variant |-> "Float", whole |-> whole, frac |-> frac]

\* i64::MAX = 0x7FFF_FFFF_FFFF_FFFF
I64Max == <<2^15 - 1, 2^16 - 1, 2^16 - 1, 2^16 - 1>>

\* a <= b on limb sequences of equal length
RECURSIVE LimbsLe(_, _)
LimbsLe(a, b) ==
    IF a = <<>> THEN TRUE
    ELSE IF Head(a) = Head(b) THEN LimbsLe(Tail(a), Tail(b))
    ELSE Head(a) < Head(b)

\* serde_json::Number::is_i64
is_i64(n) ==
    CASE n.variant = "PosInt" -> LimbsLe(n.limbs, I64Max)
      [] n.variant = "NegInt" -> TRUE
      [] n.variant = "Float"  -> FALSE
\* faulty variant: a string is typed Float (as an earlier copy of the visitor did)
Type_try_from_string_float(v) ==
    CASE v.kind \in {"Null", "Array", "Object"} -> Err("UnimplementedConversion")
      [] v.kind = "Number" -> Ok(IF is_i64(v.n) THEN "Integer" ELSE "Float")
      [] v.kind = "String" -> Ok("Float")
      [] v.kind = "Bool"   -> Ok("Bool")

\* impl TryFrom<&serde_json::Value> for Type
Type_try_from(v) ==
    CASE v.kind \in {"Null", "Array", "Object"} -> Err("UnimplementedConversion")
      [] v.kind = "Number" -> Ok(IF is_i64(v.n) THEN "Integer" ELSE "Float")
      [] v.kind = "String" -> Ok("Text")
      [] v.kind = "Bool"   -> Ok("Bool")

(***************************************************************************)
(* Deserializing a live schema: a JSON object, given as the sequence of    *)
(* its <<key, value>> members as written.                                  *)
(***************************************************************************)
\* faulty variant: the members are kept in the order they were inserted
MapInsert_in_written_order(map, k, v) ==
    IF \E i \in 1..Len(map) : map[i][1] = k
    THEN [i \in 1..Len(map) |-> IF map[i][1] = k THEN <<k, v>> ELSE map[i]]
    ELSE Append(map, <<k, v>>)

\* serde_json::Map (a BTreeMap<String, Value>) insert: the members are kept
\* in increasing key order and a key that is already there gets the value
RECURSIVE MapInsert(_, _, _)
MapInsert(map, k, v) ==
    IF map = <<>> THEN << <<k, v>> >>
    ELSE IF Head(map)[1] = k THEN << <<k, v>> >> \o Tail(map)
    ELSE IF StrLess(k, Head(map)[1]) THEN << <<k, v>> >> \o map
    ELSE <<Head(map)>> \o MapInsert(Tail(map), k, v)

\* the Map of an object, built member by member
RECURSIVE MapOf(_)
MapOf(members) ==
    IF members = <<>> THEN <<>>
    ELSE LET last == members[Len(members)] IN
         MapInsert(MapOf(SubSeq(members, 1, Len(members) - 1)), last[1], last[2])
\* faulty variant: a value without a Type is typed Text instead of failing
LiveField_lenient(key, val) ==
    LET t == Type_try_from(val) IN
    IF t.tag = "Err" THEN Ok(Field(key, "Text", FALSE))
    ELSE Ok(Field(key, t.value, FALSE))

\* faulty variant: the Field of a sampled key is made nullable
LiveField_nullable(key, val) ==
    LET t == Type_try_from(val) IN
    IF t.tag = "Err" THEN Err("invalid_type")
    ELSE Ok(Field(key, t.value, TRUE))

\* Field { name: key, field_type: Type::try_from(&value).map_err(..)?, nullable: false }
LiveField(key, val) ==
    LET t == Type_try_from(val) IN
    IF t.tag = "Err" THEN Err("invalid_type")
    ELSE Ok(Field(key, t.value, FALSE))

\* faulty variant: a fixed number of slots, further keys are dropped
RECURSIVE VisitMapLoop_two_slots(_, _)
VisitMapLoop_two_slots(entries, inner) ==
    IF entries = <<>> \/ Len(inner) >= 2 THEN Ok(inner)
    ELSE LET t == Type_try_from(Head(entries)[2]) IN
         IF t.tag = "Err" THEN Err("invalid_type")
         ELSE VisitMapLoop_two_slots(Tail(entries),
                  Append(inner, Some(<<Field(Head(entries)[1], t.value, FALSE),
                                       Head(entries)[2]>>)))

\* the while-let loop of LiveSchemaVisitor::visit_map over the entries left
RECURSIVE VisitMapLoop(_, _)
VisitMapLoop(entries, inner) ==
    IF entries = <<>> THEN Ok(inner)
    ELSE LET field == LiveField(Head(entries)[1], Head(entries)[2]) IN
         IF field.tag = "Err" THEN field
         ELSE VisitMapLoop(Tail(entries),
                           Append(inner, Some(<<field.value, Head(entries)[2]>>)))

\* LiveSchemaVisitor::visit_map, started with LiveSchema::new(size_hint)
visit_map(entries) == VisitMapLoop(entries, <<>>)

\* impl Deserialize for LiveSchema, driven by serde_json::from_value on an
\* object: the visitor walks the members of the Map in the Map's order
LiveSchema_deserialize(members) == visit_map(MapOf(members))

(***************************************************************************)
(* TableCreateStatement::to_string(PostgresQueryBuilder), as the tests     *)
(* and the web handler render a statement.                                 *)
(***************************************************************************)
Quoted(iden) == <<"\"">> \o unquoted(iden) \o <<"\"">>

SeqRange(s) == {s[i] : i \in 1..Len(s)}

PgType(c) ==
    IF "AutoIncrement" \in SeqRange(c.spec) /\ c.types = "Integer"
    THEN <<"s","e","r","i","a","l">>
    ELSE CASE c.types = "Integer" -> <<"i","n","t","e","g","e","r">>
           [] c.types = "Float"   -> <<"r","e","a","l">>
           [] c.types = "Text"    -> <<"t","e","x","t">>
           [] c.types = "Boolean" -> <<"b","o","o","l">>

PgSpec(sp) ==
    CASE sp = "Null"          -> <<" ","N","U","L","L">>
      [] sp = "NotNull"       -> <<" ","N","O","T"," ","N","U","L","L">>
      [] sp = "PrimaryKey"    -> <<" ","P","R","I","M","A","R","Y"," ","K","E","Y">>
      [] sp = "AutoIncrement" -> <<>>

RECURSIVE PgSpecs(_)
PgSpecs(spec) ==
    IF spec = <<>> THEN <<>> ELSE PgSpec(Head(spec)) \o PgSpecs(Tail(spec))

PgColumn(c) == Quoted(c.name) \o <<" ">> \o PgType(c) \o PgSpecs(c.spec)

RECURSIVE PgColumns(_)
PgColumns(cols) ==
    IF cols = <<>> THEN <<>>
    ELSE IF Len(cols) = 1 THEN PgColumn(Head(cols))
    ELSE PgColumn(Head(cols)) \o <<",", " ">> \o PgColumns(Tail(cols))

to_string(stmt) ==
    <<"C","R","E","A","T","E"," ","T","A","B","L","E"," ">>
    \o Quoted(stmt.table) \o <<" ", "(", " ">>
    \o PgColumns(stmt.columns) \o <<" ", ")">>

(***************************************************************************)
(* Inputs explored.                                                        *)
(***************************************************************************)
Names == {<<"t">>, <<"T">>, <<"i", "d">>}

TableNames == {<<"t","e","s","t","_","t">>, <<"T">>}

\* the keys of the live-schema samples explored
LiveKeys == Names \cup {<<"d">>}

Tags == {"integer", "float", "text", "bool"}

\* <<type tag, nullable key>> of the well-formed declarations explored
DeclShapes == {<<"integer", "absent">>, <<"float", "false">>,
               <<"text", "true">>, <<"bool", "absent">>}

WellFormedDecls == {Decl(TRUE, n, sh[1], sh[2]) : n \in Names, sh \in DeclShapes}

\* no name, no type, a type tag that is no variant of Type
MalformedDecls == {Decl(FALSE, <<>>, "integer", "absent"),
                   Decl(TRUE, <<"t">>, "absent", "absent"),
                   Decl(TRUE, <<"t">>, "boolean", "true")}

\* [{"name":"temperature","type":"integer","nullable":true}]
ScenarioJson ==
    <<Decl(TRUE, <<"t","e","m","p","e","r","a","t","u","r","e">>, "integer", "true")>>

\* the Schema holding the one Field that ScenarioJson declares
ScenarioSchema ==
    <<Some(Field(<<"t","e","m","p","e","r","a","t","u","r","e">>, "Integer", TRUE))>>

\* {"temperature":23.2,"active":false,"device":"AmberRoomTemp"}
LiveScenario ==
    << <<(<<"t","e","m","p","e","r","a","t","u","r","e">>), JNumber(Float(23, 2))>>,
       <<(<<"a","c","t","i","v","e">>), JBool(FALSE)>>,
       <<(<<"d","e","v","i","c","e">>),
         JString(<<"A","m","b","e","r","R","o","o","m","T","e","m","p">>)>> >>

Fields == {Field(n, t, nl) : n \in Names, t \in Type, nl \in BOOLEAN}

\* 2^63, one above i64::MAX
TwoTo63 == <<2^15, 0, 0, 0>>

LiveValues == {JNull, JArray, JObject, JBool(FALSE), JString(<<"x">>),
               JNumber(PosInt(<<0, 0, 0, 23>>)), JNumber(Float(23, 2)),
               JNumber(PosInt(TwoTo63))}

PushedValues == {JBool(FALSE), JString(<<"x">>)}

Limbs == {0, 1, 2^15 - 1, 2^15, 2^16 - 1}

LimbSeqs == {<<a, b, c, d>> : a \in Limbs, b \in {0, 2^16 - 1}, c \in {0, 2^16 - 1}, d \in Limbs}

InferValues ==
    {JNull, JArray, JObject, JBool(FALSE), JBool(TRUE),
     JString(<<>>), JString(<<"x">>), JString(<<"2", "3">>)}
    \cup {JNumber(PosInt(l)) : l \in LimbSeqs}
    \cup {JNumber(NegInt(l)) : l \in {m \in LimbSeqs : LimbsLe(m, TwoTo63) /\ m # <<0, 0, 0, 0>>}}
    \cup {JNumber(Float(w, f)) : w \in {0, 1, 23}, f \in {0, 2}}

(***************************************************************************)
(* State machine.                                                          *)
(*   json, sample     the input written so far                             *)
(*   schema_result    what serde_json::from_value::<Schema> returned       *)
(*   live_result      what serde_json::from_value::<LiveSchema> returned   *)
(*   schema           the Schema value held, if any                        *)
(*   live_schema      the LiveSchema value held, if any                    *)
(*   statement        the statement compiled, if any                       *)
(*   value, inferred  a sample value and what Type::try_from made of it    *)
(***************************************************************************)
AuxIdle ==
    /\ compared = <<>>
    /\ equal = NoResult
    /\ templates = <<>>
    /\ tables = {}
    /\ response = NoResult

Idle ==
    /\ json = <<>>
    /\ schema_result = NoResult
    /\ sample = <<>>
    /\ live_result = NoResult
    /\ schema = None
    /\ live_schema = None
    /\ statement = None
    /\ value = JNull
    /\ inferred = NoResult
    /\ AuxIdle

\* ---- declared schema: write the array, deserialize, compile ----
Init == Idle

AppendDeclaration(d) ==
    /\ schema_result = NoResult
    /\ Len(json) < MaxLen
    /\ json # ScenarioJson
    /\ json' = Append(json, d)
    /\ UNCHANGED <<schema_result, sample, live_result, schema, live_schema,
                   statement, value, inferred, aux>>

WriteScenario ==
    /\ schema_result = NoResult
    /\ json = <<>>
    /\ json' = ScenarioJson
    /\ UNCHANGED <<schema_result, sample, live_result, schema, live_schema,
                   statement, value, inferred, aux>>

DeserializeSchema ==
    /\ schema_result = NoResult
    /\ schema_result' = Schema_deserialize(json)
    /\ schema' = IF schema_result'.tag = "Ok" THEN Some(schema_result'.value) ELSE None
    /\ UNCHANGED <<json, sample, live_result, live_schema, statement, value, inferred, aux>>

CompileSchema(t) ==
    /\ schema.some
    /\ statement = None
    /\ statement' = Some([of |-> "Schema", table_name |-> t,
                          stmt |-> Schema_table_create_statement(schema.v, t)])
    /\ UNCHANGED <<json, schema_result, sample, live_result, schema, live_schema,
                   value, inferred, aux>>

Next ==
    \/ \E d \in WellFormedDecls \cup MalformedDecls : AppendDeclaration(d)
    \/ WriteScenario
    \/ DeserializeSchema
    \/ \E t \in TableNames : CompileSchema(t)

Spec == Init /\ [][Next]_vars

\* ---- live schema: write the object, deserialize, compile ----
WriteLiveScenario ==
    /\ live_result = NoResult
    /\ sample = <<>>
    /\ sample' = LiveScenario
    /\ UNCHANGED <<json, schema_result, live_result, schema, live_schema,
                   statement, value, inferred, aux>>

WriteMember(k, v) ==
    /\ live_result = NoResult
    /\ Len(sample) < MaxKeys
    /\ sample # LiveScenario
    /\ \A i \in 1..Len(sample) : sample[i][1] # k
    /\ sample' = Append(sample, <<k, v>>)
    /\ UNCHANGED <<json, schema_result, live_result, schema, live_schema,
                   statement, value, inferred, aux>>

DeserializeLive ==
    /\ live_result = NoResult
    /\ live_result' = LiveSchema_deserialize(sample)
    /\ live_schema' = IF live_result'.tag = "Ok" THEN Some(live_result'.value) ELSE None
    /\ UNCHANGED <<json, schema_result, sample, schema, statement, value, inferred, aux>>

CompileLive(t) ==
    /\ live_schema.some
    /\ statement = None
    /\ statement' = Some([of |-> "LiveSchema", table_name |-> t,
                          stmt |-> LiveSchema_table_create_statement(live_schema.v, t)])
    /\ UNCHANGED <<json, schema_result, sample, live_result, schema, live_schema,
                   value, inferred, aux>>

NextLive ==
    \/ WriteLiveScenario
    \/ \E k \in LiveKeys, v \in LiveValues : WriteMember(k, v)
    \/ DeserializeLive
    \/ \E t \in TableNames : CompileLive(t)

SpecLive == Init /\ [][NextLive]_vars

\* ---- schema values built entry by entry, then compiled ----
InitCompile ==
    /\ json = <<>>
    /\ schema_result = NoResult
    /\ sample = <<>>
    /\ live_result = NoResult
    /\ schema = Some(<<>>)
    /\ live_schema = Some(<<>>)
    /\ statement = None
    /\ value = JNull
    /\ inferred = NoResult
    /\ AuxIdle

\* Schema(vec![Field { name: "temperature", .. }])
BuildScenario ==
    /\ statement = None
    /\ live_schema.v = <<>>
    /\ schema.v = <<>>
    /\ schema' = Some(ScenarioSchema)
    /\ UNCHANGED <<json, schema_result, sample, live_result, live_schema,
                   statement, value, inferred, aux>>

\* schema.0.push(Some(x))
PushField(f) ==
    /\ statement = None
    /\ live_schema.v = <<>>
    /\ schema.v # ScenarioSchema
    /\ Len(schema.v) < MaxFields
    /\ schema' = Some(Append(schema.v, Some(f)))
    /\ UNCHANGED <<json, schema_result, sample, live_result, live_schema,
                   statement, value, inferred, aux>>

\* want.0.push(Some((field, value)))
PushLive(f, v) ==
    /\ statement = None
    /\ schema.v = <<>>
    /\ Len(live_schema.v) < MaxFields
    /\ live_schema' = Some(Append(live_schema.v, Some(<<f, v>>)))
    /\ UNCHANGED <<json, schema_result, sample, live_result, schema,
                   statement, value, inferred, aux>>

NextCompile ==
    \/ BuildScenario
    \/ \E f \in Fields : PushField(f)
    \/ \E f \in Fields, v \in PushedValues : PushLive(f, v)
    \/ \E t \in TableNames : CompileSchema(t)
    \/ \E t \in TableNames : CompileLive(t)

SpecCompile == InitCompile /\ [][NextCompile]_vars

\* ---- type inference on one sample value ----
InitInfer ==
    /\ json = <<>>
    /\ schema_result = NoResult
    /\ sample = <<>>
    /\ live_result = NoResult
    /\ schema = None
    /\ live_schema = None
    /\ statement = None
    /\ value \in InferValues
    /\ inferred = NoResult
    /\ AuxIdle

Infer ==
    /\ inferred = NoResult
    /\ inferred' = Type_try_from(value)
    /\ UNCHANGED <<json, schema_result, sample, live_result, schema, live_schema,
                   statement, value, aux>>

NextInfer == Infer

SpecInfer == InitInfer /\ [][NextInfer]_vars

\* ---- Field equality on three Fields ----
InitEq ==
    /\ json = <<>>
    /\ schema_result = NoResult
    /\ sample = <<>>
    /\ live_result = NoResult
    /\ schema = None
    /\ live_schema = None
    /\ statement = None
    /\ value = JNull
    /\ inferred = NoResult
    /\ compared \in {<<a, b, c>> : a \in Fields, b \in Fields, c \in Fields}
    /\ equal = NoResult
    /\ templates = <<>>
    /\ tables = {}
    /\ response = NoResult

\* l.eq(r) / l.ne(r) on the Fields held
Compare ==
    /\ equal = NoResult
    /\ equal' = [aa |-> Field_eq(compared[1], compared[1]),
                 ab |-> Field_eq(compared[1], compared[2]),
                 ba |-> Field_eq(compared[2], compared[1]),
                 bc |-> Field_eq(compared[2], compared[3]),
                 ac |-> Field_eq(compared[1], compared[3])]
    /\ UNCHANGED <<json, schema_result, sample, live_result, schema, live_schema,
                   statement, value, inferred, compared, templates, tables, response>>

NextEq == Compare

SpecEq == InitEq /\ [][NextEq]_vars

(***************************************************************************)
(* The web service (crates/services/web): the handler new_template, the   *)
(* Schema of the crate lib_templates it imports, and the database.         *)
(***************************************************************************)
\* enum Type of lib_templates: three variants, "bool" is no tag of it
lib_templates_TypeOfTag(tag) ==
    CASE tag = "integer" -> Ok("Integer")
      [] tag = "float"   -> Ok("Float")
      [] tag = "text"    -> Ok("Text")
      [] OTHER           -> Err("unknown_variant")

\* #[derive(Deserialize)] of lib_templates' Field
lib_templates_Field_deserialize(d) ==
    IF d.type # "absent" /\ lib_templates_TypeOfTag(d.type).tag = "Err"
    THEN lib_templates_TypeOfTag(d.type)
    ELSE IF ~d.has_name \/ d.type = "absent" THEN Err("missing_field")
    ELSE Ok(Field(d.name, lib_templates_TypeOfTag(d.type).value,
                  IF d.nullable = "absent" THEN FALSE ELSE d.nullable = "true"))

\* where the reader of the request body stands after a declaration failed,
\* the keys being written in the order name, type, nullable: a missing key
\* is reported once the object is read to its end, an unknown type tag
\* where it is read, which leaves a nullable member behind it unread
LeftUnread(d) ==
    /\ d.type # "absent"
    /\ lib_templates_TypeOfTag(d.type).tag = "Err"
    /\ d.nullable # "absent"

\* the while-let loop of lib_templates' SchemaVisitor::visit_seq from
\* element i on: an accepted entry is pushed to the schema
RECURSIVE lib_templates_VisitSeqLoop(_, _, _, _)
lib_templates_VisitSeqLoop(seq, i, existing, inner) ==
    IF i > Len(seq)
    THEN [ret |-> Ok(inner), taken |-> Len(seq), at_end |-> TRUE]
    ELSE LET entry == lib_templates_Field_deserialize(seq[i]) IN
         IF entry.tag # "Ok"
         THEN [ret |-> Ok(inner), taken |-> i, at_end |-> ~LeftUnread(seq[i])]
         ELSE IF entry.value.name \in existing
         THEN [ret |-> Err("duplicate_field"), taken |-> i, at_end |-> TRUE]
         ELSE lib_templates_VisitSeqLoop(seq, i + 1,
                  existing \cup {entry.value.name}, Append(inner, entry.value))

\* lib_templates' SchemaVisitor::visit_seq, started with Schema(vec![])
lib_templates_visit_seq(seq) == lib_templates_VisitSeqLoop(seq, 1, {}, <<>>)

\* impl Deserialize for lib_templates' Schema, driven by the reader of the
\* request body: the visitor's error is passed on, and a visitor that
\* returns before the closing bracket makes the reader fail
lib_templates_Schema_deserialize(array) ==
    LET r == lib_templates_visit_seq(array) IN
    IF r.ret.tag = "Err" THEN r.ret
    ELSE IF r.taken = Len(array) /\ r.at_end THEN r.ret
    ELSE Err("trailing_characters")

\* match entry.field_type() { ... } of lib_templates' table_create_statement
lib_templates_ColType(column, t) ==
    CASE t = "Integer" -> col_integer(column)
      [] t = "Float"   -> col_float(column)
      [] t = "Text"    -> col_text(column)

\* the body of the loop of lib_templates' table_create_statement
lib_templates_Column(entry) ==
    lib_templates_ColType(
        IF entry.nullable THEN col_null(ColumnDef_new(iden_str(entry.name)))
        ELSE ColumnDef_new(iden_str(entry.name)),
        entry.field_type)

\* let mut index = ...; index.integer().not_null().auto_increment(); index.primary_key()
lib_templates_index ==
    col_primary_key(col_auto_increment(col_not_null(col_integer(
        ColumnDef_new(iden_str(<<"i", "d">>))))))

\* lib_templates' Schema::table_create_statement
lib_templates_table_create_statement(self, table_name) ==
    [table |-> iden_str(table_name),
     columns |-> Append([i \in 1..Len(self) |-> lib_templates_Column(self[i])],
                        lib_templates_index)]

\* template_meta.insert(&*connection): the table template has a serial
\* primary key and a plain, not unique, index on name
template_insert(rows, name) == Append(rows, [id |-> Len(rows) + 1, name |-> name])

\* the database executing the CREATE TABLE text: refused when a relation
\* of that (quoted, lower-cased) name exists or when a column name is
\* specified more than once
query_one(stmt, relations) ==
    LET name == unquoted(stmt.table)
        cols == [i \in 1..Len(stmt.columns) |-> unquoted(stmt.columns[i].name)]
    IN  IF name \in relations THEN Err("relation already exists")
        ELSE IF \E i, j \in 1..Len(cols) : i < j /\ cols[i] = cols[j]
        THEN Err("column specified more than once")
        ELSE Ok(relations \cup {name})

\* the declarations of the request bodies explored
WebDecls ==
    {Decl(TRUE, n, sh[1], sh[2]) :
        n \in Names, sh \in {<<"integer", "absent">>, <<"text", "true">>}}
    \cup {Decl(FALSE, <<>>, "integer", "absent"),
          Decl(TRUE, <<"t">>, "bool", "absent"),
          Decl(TRUE, <<"t">>, "bool", "true")}

\* the :template path segments and the meta.name values explored
TemplatePaths == {<<"T">>, <<"t">>, <<"u">>}
MetaNames == {"a", "b"}

\* the outcomes of the INSERT the database can give
InsertOutcomes == {"Inserted", "SqlErr", "ConnErr"}

InitWeb == Idle

\* a client writes one more declaration into the schema of its request
WritePayload(d) ==
    /\ response = NoResult
    /\ Len(json) < MaxFields
    /\ json' = Append(json, d)
    /\ UNCHANGED <<schema_result, sample, live_result, schema, live_schema,
                   statement, value, inferred, compared, equal, templates,
                   tables, response>>

\* POST /api/templates/:template with the body written so far
new_template(template, meta_name, outcome) ==
    /\ response = NoResult
    /\ Len(templates) < MaxTemplates
    /\ LET payload == lib_templates_Schema_deserialize(json)
           stmt    == lib_templates_table_create_statement(payload.value, template)
           res     == query_one(stmt, tables)
       IN  /\ schema_result' = payload
           /\ IF payload.tag = "Err"
              THEN /\ statement' = None
                   /\ response' = Err("JsonRejection")
                   /\ UNCHANGED <<templates, tables>>
              ELSE /\ statement' = Some([of |-> "lib_templates::Schema",
                                         table_name |-> template, stmt |-> stmt])
                   /\ IF outcome = "SqlErr"
                      THEN /\ response' = Err("InternalServerError")
                           /\ UNCHANGED <<templates, tables>>
                      ELSE IF outcome = "ConnErr"
                      THEN /\ response' = [tag |-> "Panicked"]
                           /\ UNCHANGED <<templates, tables>>
                      ELSE /\ templates' = template_insert(templates, meta_name)
                           /\ IF res.tag = "Ok"
                              THEN /\ tables' = res.value
                                   /\ response' = Ok("success")
                              ELSE /\ tables' = tables
                                   /\ response' = Err("BadTemplateSchema")
    /\ UNCHANGED <<json, sample, live_result, schema, live_schema, value,
                   inferred, compared, equal>>

\* the response is sent; the next request starts with an empty body
NextRequest ==
    /\ response # NoResult
    /\ json' = <<>>
    /\ schema_result' = NoResult
    /\ statement' = None
    /\ response' = NoResult
    /\ UNCHANGED <<sample, live_result, schema, live_schema, value, inferred,
                   compared, equal, templates, tables>>

NextWeb ==
    \/ \E d \in WebDecls : WritePayload(d)
    \/ \E t \in TemplatePaths, n \in MetaNames, o \in InsertOutcomes :
           new_template(t, n, o)
    \/ NextRequest

SpecWeb == InitWeb /\ [][NextWeb]_vars

(***************************************************************************)
(* Properties.                                                             *)
(***************************************************************************)
\* a declaration with a name and one of the four type tags
WellFormed(d) == d.has_name /\ d.type \in Tags

\* the Field a well-formed declaration declares
DeclaredField(d) ==
    Field(d.name,
          CASE d.type = "integer" -> "Integer" [] d.type = "float" -> "Float"
            [] d.type = "text" -> "Text" [] d.type = "bool" -> "Bool",
          d.nullable = "true")

AllWellFormed(js) == \A i \in 1..Len(js) : WellFormed(js[i])

HasDuplicateName(js) ==
    \E i, j \in 1..Len(js) :
        i < j /\ WellFormed(js[i]) /\ WellFormed(js[j]) /\ js[i].name = js[j].name

\* C1: a declared-schema input in which two declarations carry the same
\* name never deserializes into a Schema: the call returns an error and no
\* Schema value is held; when every element is a well-formed declaration the
\* error is the duplicate-field error.
C1_DuplicateNamesRejected ==
    (schema_result # NoResult /\ HasDuplicateName(json)) =>
        /\ schema_result.tag = "Err"
        /\ ~schema.some
        /\ AllWellFormed(json) => schema_result = Err("duplicate_field")

\* C1 witness: a three-element input whose first and last declarations share
\* a name but differ in type and nullable flag was rejected as a duplicate.
C1_Witness ==
    /\ schema_result = Err("duplicate_field")
    /\ Len(json) = 3
    /\ AllWellFormed(json)
    /\ json[1].name = json[3].name
    /\ json[1].name # json[2].name
    /\ json[1].type # json[3].type
    /\ json[1].nullable # json[3].nullable

\* C2: a declared-schema input of well-formed declarations with pairwise
\* distinct names deserializes successfully into a Schema that holds exactly
\* the declared Fields, one per declaration, in input order.
C2_DistinctNamesParseToSameFields ==
    (schema_result # NoResult /\ AllWellFormed(json) /\ ~HasDuplicateName(json)) =>
        /\ schema_result.tag = "Ok"
        /\ Len(schema_result.value) = Len(json)
        /\ \A i \in 1..Len(json) : schema_result.value[i] = Some(DeclaredField(json[i]))

\* the members of the Map of the sample whose value has no Type
Untypeable(v) == v.kind \in {"Null", "Array", "Object"}

HasUntypeable(members) == \E i \in 1..Len(members) : Untypeable(members[i][2])

\* C3: a live-schema sample in which some key maps to null, an array or an
\* object fails to deserialize as a whole, wherever that key sits: an error
\* is returned and no LiveSchema value (not even one holding the keys typed
\* before it) is held.
C3_UntypeableSampleRejected ==
    (live_result # NoResult /\ HasUntypeable(sample)) =>
        /\ live_result.tag = "Err"
        /\ ~live_schema.some

\* C3 witness: a three-key sample whose only untypeable value sits under the
\* key the Map visits last, after two keys that were typed, was rejected.
C3_Witness ==
    /\ live_result.tag = "Err"
    /\ Len(sample) = 3
    /\ Untypeable(MapOf(sample)[3][2])
    /\ ~Untypeable(MapOf(sample)[1][2])
    /\ ~Untypeable(MapOf(sample)[2][2])

\* C4: Type::try_from is decided by the kind of the value alone and covers
\* every kind: a string gives Text, a boolean gives Bool, a number gives
\* Integer or Float, and null, an array or an object fails with
\* UnimplementedConversion.
C4_InferenceByKind ==
    inferred # NoResult =>
        CASE value.kind = "String" -> inferred = Ok("Text")
          [] value.kind = "Bool"   -> inferred = Ok("Bool")
          [] value.kind = "Number" -> inferred \in {Ok("Integer"), Ok("Float")}
          [] value.kind \in {"Null", "Array", "Object"} ->
                 inferred = Err("UnimplementedConversion")

\* C4 witness: a string whose text looks like a number was typed Text.
C4_Witness ==
    /\ value = JString(<<"2", "3">>)
    /\ inferred = Ok("Text")

\* a Number written without a fraction
Integral(n) == n.variant \in {"PosInt", "NegInt"}

\* C5: every integral number infers Integer, including the non-negative
\* integers above the signed 64-bit maximum, and Float is inferred only for
\* a number that needs a fractional representation.
C5_IntegralInfersInteger ==
    (inferred # NoResult /\ value.kind = "Number") =>
        /\ Integral(value.n) => inferred = Ok("Integer")
        /\ inferred = Ok("Float") => ~Integral(value.n)

\* the columns of the compiled statement, and the Fields it was compiled from
Columns == statement.v.stmt.columns

SourceFields ==
    IF statement.v.of = "Schema"
    THEN [i \in 1..Len(schema.v) |-> schema.v[i].v]
    ELSE [i \in 1..Len(live_schema.v) |-> live_schema.v[i].v[1]]

IdName == <<"i", "d">>

\* C6: the compiled statement has exactly one column named id, that column
\* is the last one, and it is an auto-incrementing integer marked not null
\* primary key.
C6_ExactlyOneIdColumnLast ==
    statement.some =>
        /\ Cardinality({i \in 1..Len(Columns) : unquoted(Columns[i].name) = IdName}) = 1
        /\ unquoted(Columns[Len(Columns)].name) = IdName
        /\ Columns[Len(Columns)].types = "Integer"
        /\ SeqRange(Columns[Len(Columns)].spec) = {"NotNull", "AutoIncrement", "PrimaryKey"}

\* C7: the compiled statement has one column per Field of the schema, in the
\* order of the schema's Field sequence and before the id column: column i
\* carries the lower-cased name of Field i, and there is one column more
\* than there are Fields.
C7_OneColumnPerFieldInOrder ==
    statement.some =>
        /\ Len(Columns) = Len(SourceFields) + 1
        /\ \A i \in 1..Len(SourceFields) :
               unquoted(Columns[i].name) = to_lowercase(SourceFields[i].name)

\* C7 witness: a Schema of two Fields with different names, the first of
\* them upper-case, was compiled.
C7_Witness ==
    /\ statement.some
    /\ statement.v.of = "Schema"
    /\ Len(schema.v) = 2
    /\ schema.v[1].v.name = <<"T">>
    /\ schema.v[2].v.name = <<"i", "d">>

\* C8: a Field's column carries the NULL modifier exactly when the Field is
\* nullable, and the column of a Field that is not nullable carries no
\* modifier at all.
C8_NullModifierIffNullable ==
    statement.some =>
        \A i \in 1..Len(SourceFields) :
            /\ ("Null" \in SeqRange(Columns[i].spec)) <=> SourceFields[i].nullable
            /\ ~SourceFields[i].nullable => Columns[i].spec = <<>>

\* C8 witness: a schema with a nullable Field followed by a Field that is
\* not nullable was compiled.
C8_Witness ==
    /\ statement.some
    /\ Len(SourceFields) = 2
    /\ SourceFields[1].nullable
    /\ ~SourceFields[2].nullable

\* the column type the builder is asked for, per Type
MappedColumnType(t) ==
    CASE t = "Integer" -> "Integer" [] t = "Float" -> "Float"
      [] t = "Text" -> "Text" [] t = "Bool" -> "Boolean"

\* C9: the column type of a Field's column is decided by the Field's Type
\* alone, Integer -> integer, Float -> float (real), Text -> text, Bool ->
\* boolean, the same for Schema and LiveSchema, and every Type has one.
C9_ColumnTypeByFieldType ==
    statement.some =>
        \A i \in 1..Len(SourceFields) :
            /\ SourceFields[i].field_type \in Type
            /\ Columns[i].types = MappedColumnType(SourceFields[i].field_type)

\* C9 witness: a LiveSchema holding a Bool Field and a Float Field was compiled.
C9_Witness ==
    /\ statement.some
    /\ statement.v.of = "LiveSchema"
    /\ Len(SourceFields) = 2
    /\ SourceFields[1].field_type = "Bool"
    /\ SourceFields[2].field_type = "Float"

\* the text of the compiled statement as the tests compare it
StatementText == Str(to_lowercase(to_string(statement.v.stmt)))

ScenarioCompiled ==
    /\ statement.some
    /\ statement.v.of = "Schema"
    /\ statement.v.table_name = <<"t","e","s","t","_","t">>
    /\ json = ScenarioJson \/ schema.v = ScenarioSchema

PairOf(member) ==
    Some(<<Field(member[1], Type_try_from(member[2]).value, FALSE), member[2]>>)

PairNames(inner) == [i \in 1..Len(inner) |-> inner[i].v[1].name]

PairTypes(inner) == [i \in 1..Len(inner) |-> inner[i].v[1].field_type]

\* C11 (as claimed): a parsed live-schema sample yields one (Field, value)
\* pair per key in the order in which the keys are written in the sample,
\* each Field typed from its own value and paired with it; the scenario
\* sample yields temperature, active, device typed Float, Bool, Text.
C11_PairsInWrittenOrder ==
    live_result.tag = "Ok" =>
        /\ Len(live_result.value) = Len(sample)
        /\ \A i \in 1..Len(sample) : live_result.value[i] = PairOf(sample[i])

\* C11 (amended): a parsed live-schema sample yields one (Field, value) pair
\* per key, each Field typed from its own value and paired with it, in
\* increasing byte order of the keys (the order of the sample's Map); the
\* scenario sample yields active, device, temperature typed Bool, Text, Float.
C11_PairsInKeyOrder ==
    live_result.tag = "Ok" =>
        /\ Len(live_result.value) = Len(sample)
        /\ \A j \in 1..Len(sample) :
               \E i \in 1..Len(sample) : live_result.value[i] = PairOf(sample[j])
        /\ \A i \in 1..(Len(sample) - 1) :
               StrLess(PairNames(live_result.value)[i], PairNames(live_result.value)[i + 1])
        /\ sample = LiveScenario =>
               /\ PairNames(live_result.value) =
                      <<LiveScenario[2][1], LiveScenario[3][1], LiveScenario[1][1]>>
               /\ PairTypes(live_result.value) = <<"Bool", "Text", "Float">>

\* C11 witness: the scenario sample was parsed.
C11_Witness ==
    /\ sample = LiveScenario
    /\ live_result.tag = "Ok"
    /\ Len(live_result.value) = 3

\* C13: a declared-schema input that contains a structurally invalid
\* declaration (no name, no type, an unknown type tag) at any position, the
\* last one included, is rejected: an error is returned and no Schema built
\* from the declarations before it.
C13_MalformedDeclarationRejected ==
    (schema_result # NoResult /\ ~AllWellFormed(json)) =>
        /\ schema_result.tag = "Err"
        /\ ~schema.some

\* C14: the empty declared-schema input deserializes into the empty Schema,
\* and the statement compiled from it has the id column as its only column.
C14_EmptyInputEmptySchema ==
    (schema_result # NoResult /\ json = <<>>) =>
        /\ schema_result = Ok(<<>>)
        /\ schema = Some(<<>>)
        /\ statement.some =>
               /\ Len(Columns) = 1
               /\ unquoted(Columns[1].name) = IdName

\* C14 witness: the empty input was deserialized and the Schema compiled.
C14_Witness ==
    /\ json = <<>>
    /\ schema_result.tag = "Ok"
    /\ statement.some

\* C15: two Fields are equal exactly when their names are the same string,
\* character for character, whatever their type and nullable flag; the
\* relation is reflexive, symmetric and transitive.
C15_FieldEqualityByName ==
    equal # NoResult =>
        /\ equal.ab <=> (compared[1].name = compared[2].name)
        /\ equal.aa
        /\ equal.ab <=> equal.ba
        /\ (equal.ab /\ equal.bc) => equal.ac

\* C15 witness: two Fields with the same name but another type and another
\* nullable flag compared equal, and the third, whose name differs from
\* theirs only in letter case, compared unequal.
C15_Witness ==
    /\ equal # NoResult
    /\ equal.ab
    /\ ~equal.bc
    /\ compared[1].field_type # compared[2].field_type
    /\ compared[1].nullable # compared[2].nullable
    /\ compared[2].name = <<"t">>
    /\ compared[3].name = <<"T">>

\* a raw name as the claim says it is emitted: lower-cased, between quotes
EmittedName(raw) == <<"\"">> \o to_lowercase(raw) \o <<"\"">>

\* the first n characters of a text
Prefix(text, n) == SubSeq(text, 1, n)

\* C16: every identifier of the compiled statement (the table name, each
\* Field's column name, the id column) is emitted as its raw string
\* lower-cased and wrapped in the quote character, a name that is already
\* lower-case is emitted unchanged, and nothing else is done to the name.
C16_IdentifiersLowerCasedAndQuoted ==
    statement.some =>
        /\ SubSeq(to_string(statement.v.stmt), 14, 15 + Len(statement.v.table_name))
               = EmittedName(statement.v.table_name)
        /\ \A i \in 1..Len(SourceFields) :
               /\ Prefix(PgColumn(Columns[i]), Len(SourceFields[i].name) + 3)
                      = EmittedName(SourceFields[i].name) \o <<" ">>
               /\ SourceFields[i].name = to_lowercase(SourceFields[i].name) =>
                      SubSeq(PgColumn(Columns[i]), 2, Len(SourceFields[i].name) + 1)
                          = SourceFields[i].name
        /\ Prefix(PgColumn(Columns[Len(Columns)]), 5) = <<"\"", "i", "d", "\"", " ">>

\* C16 witness: a Schema with an upper-case and a lower-case Field name was
\* compiled for an upper-case table name.
C16_Witness ==
    /\ statement.some
    /\ statement.v.table_name = <<"T">>
    /\ Len(SourceFields) = 2
    /\ SourceFields[1].name = <<"T">>
    /\ SourceFields[2].name = <<"t">>

\* C17: every Field of a parsed LiveSchema has nullable = false, and the
\* statement compiled from a parsed LiveSchema has no NULL modifier on any
\* sampled column.
C17_LiveFieldsNotNullable ==
    /\ live_result.tag = "Ok" =>
           \A i \in 1..Len(live_result.value) : ~live_result.value[i].v[1].nullable
    /\ (statement.some /\ statement.v.of = "LiveSchema") =>
           \A i \in 1..(Len(Columns) - 1) : "Null" \notin SeqRange(Columns[i].spec)

\* C17 witness: a LiveSchema parsed from a two-key sample was compiled.
C17_Witness ==
    /\ live_result.tag = "Ok"
    /\ Len(live_result.value) = 2
    /\ statement.some
    /\ Len(Columns) = 3

\* C18: a parsed LiveSchema holds one pair per key of the sample, however
\* many keys there are: no key is dropped.
C18_EveryKeyRetained ==
    live_result.tag = "Ok" =>
        /\ Len(live_result.value) = Len(sample)
        /\ \A i \in 1..Len(live_result.value) : live_result.value[i].some
        /\ {live_result.value[i].v[1].name : i \in 1..Len(live_result.value)}
               = {sample[j][1] : j \in 1..Len(sample)}

\* C18 witness: a sample with MaxKeys keys was parsed.
C18_Witness ==
    /\ live_result.tag = "Ok"
    /\ Len(sample) = MaxKeys
    /\ Len(live_result.value) = MaxKeys

\* C19: the statement compiled from a declared schema that parsed has
\* pairwise distinct column names as emitted (lower-cased), and no column
\* of a declared Field has the name of the implicit id column.
C19_EmittedColumnNamesDistinct ==
    (schema_result.tag = "Ok" /\ statement.some) =>
        /\ \A i, j \in 1..Len(Columns) :
               i # j => unquoted(Columns[i].name) # unquoted(Columns[j].name)
        /\ \A i \in 1..(Len(Columns) - 1) : unquoted(Columns[i].name) # IdName

\* C20: a new_template request that ends with an error response leaves no
\* template row behind: the rows are what they were before the request.
C20_RowAndTableTogether ==
    [][(response = NoResult /\ response'.tag = "Err") => templates' = templates]_vars

====
